---- MODULE Spec2Model ----
(***************************************************************************)
(* Model of the DestVI deconvolution module (HSTDeconv) and of the        *)
(* dataset-level accessors of the DestVI model class.                     *)
(*                                                                         *)
(* Number representation.  Learned parameters, encoder outputs and latent *)
(* codes are integers (whole units).  The outputs of the non-linearities  *)
(* (softplus, log1p, exp, log-densities) are fixed-point numbers in units *)
(* of 1/Q.  A product of two fixed-point numbers is rescaled by Q.        *)
(* A quotient is kept exact as a pair <<numerator, denominator>>.         *)
(***************************************************************************)
EXTENDS Integers, Sequences, FiniteSets, TLC

\* ---------------------------------------------------------------- bounds
NSpots == 2
NLabels == 2
NLatent == 2
NGenes == 1
MaxCount == 2
MaxBatch == 2
MaxSeed == 1
MaxSteps == 1
MaxP == 2

\* fixed-point quantum: 1.0 is represented by Q
Q == 1000

Spots == 0 .. (NSpots - 1)
Labels == 0 .. (NLabels - 1)
Components == 0 .. NLabels
Latents == 0 .. (NLatent - 1)
Genes == 0 .. (NGenes - 1)
Modes == {"none", "latent", "proportion", "both"}

\* an optional value: Python's None, or a value
None == [some |-> FALSE]
Some(v) == [some |-> TRUE, val |-> v]

\* what an operation did: returned a value, or raised
Return(args, v) == [kind |-> "return", args |-> args, val |-> v]
Raise(args, e) == [kind |-> "raise", args |-> args, err |-> e]

\* ------------------------------------------------------------- arithmetic
RECURSIVE SumOver(_, _)
SumOver(f, S) ==
    IF S = {} THEN 0
    ELSE LET i == CHOOSE j \in S : TRUE IN f[i] + SumOver(f, S \ {i})

\* the product of two fixed-point numbers, floor(a * b / Q), evaluated
\* without forming a * b
Mul(a, b) == a * (b \div Q) + ((a * (b % Q)) \div Q)

\* torch.nn.functional.softplus on float32: log(1 + exp(v)).
\* exp(v) underflows to 0 below about -103.9, so the result is exactly 0;
\* between there and -7 the result is positive but below the resolution 1/Q
\* and is kept as the smallest positive quantum; above 7 it equals v to
\* three decimals (and exactly v above torch's threshold of 20).
SoftplusTable ==
    [v \in -6 .. 7 |->
        CASE v = -6 -> 2 [] v = -5 -> 7 [] v = -4 -> 18 [] v = -3 -> 49
          [] v = -2 -> 127 [] v = -1 -> 313 [] v = 0 -> 693 [] v = 1 -> 1313
          [] v = 2 -> 2127 [] v = 3 -> 3049 [] v = 4 -> 4018 [] v = 5 -> 5007
          [] v = 6 -> 6002 [] v = 7 -> 7001]

Softplus(v) ==
    IF v < -103 THEN 0
    ELSE IF v < -6 THEN 1
    ELSE IF v > 7 THEN Q * v
    ELSE SoftplusTable[v]

\* torch.log(1 + x) of a count x, in units of 1/Q
Log1pTable ==
    [c \in 0 .. 8 |->
        CASE c = 0 -> 0 [] c = 1 -> 693 [] c = 2 -> 1099 [] c = 3 -> 1386
          [] c = 4 -> 1609 [] c = 5 -> 1792 [] c = 6 -> 1946 [] c = 7 -> 2079
          [] c = 8 -> 2197]

Log1p(c) == Log1pTable[c]

\* a raw count as a float, in units of 1/Q
Raw(c) == Q * c

\* torch.exp of a whole number, in units of 1/Q
Exp(v) ==
    CASE v <= -8 -> 0
      [] v = -7 -> 1 [] v = -6 -> 2 [] v = -5 -> 7 [] v = -4 -> 18
      [] v = -3 -> 50 [] v = -2 -> 135 [] v = -1 -> 368 [] v = 0 -> 1000
      [] v = 1 -> 2718 [] v = 2 -> 7389 [] v = 3 -> 20086
      [] v = 4 -> 54598

\* ------------------------------------------------------------------ state
VARIABLES
    amortization,    \* self.amortization
    decoder,         \* frozen first decoder stage (weights of the reference model)
    px_decoder,      \* frozen projection stage
    px_o,            \* frozen per-gene log-dispersion buffer
    V,               \* [n_labels + 1, n_spots] loadings
    gamma,           \* [n_latent, n_labels, n_spots] latent codes
    eta,             \* [n_genes] noise
    beta,            \* [n_genes] gene bias
    gamma_encoder,   \* weights of the latent encoder
    V_encoder,       \* weights of the loading encoder
    requires_grad,   \* gradient tracking flag of every tensor
    mean_vprior,     \* None or [n_labels, p, n_latent]
    var_vprior,      \* None or [n_labels, p, n_latent]
    X,               \* st_adata.X, [n_spots, n_genes] counts
    obs_indices,     \* st_adata.obs["_indices"]
    tensors,         \* the minibatch of the step in progress
    op,              \* the operation that ran last
    result,          \* what it returned or raised
    enc_log,         \* the encoder invocations it made
    nsteps,          \* optimizer steps taken so far
    is_trained_,     \* DestVI.is_trained_
    tuner            \* the Autotune object: its three hyperparameter dicts

frozen == <<decoder, px_decoder, px_o>>
learned == <<V, gamma, eta, beta, gamma_encoder, V_encoder>>
config == <<amortization, requires_grad, mean_vprior, var_vprior, X, obs_indices, tuner>>
vars == <<amortization, decoder, px_decoder, px_o, V, gamma, eta, beta,
          gamma_encoder, V_encoder, requires_grad, mean_vprior, var_vprior,
          X, obs_indices, tensors, op, result, enc_log, nsteps, is_trained_, tuner>>

FrozenNames == {"decoder", "px_decoder", "px_o"}
LearnedNames == {"V", "gamma", "eta", "beta", "gamma_encoder", "V_encoder"}
TensorNames == FrozenNames \cup LearnedNames

\* ----------------------------------------------------------- construction
\* torch.randn: a pseudo-random draw, a function of the seed and of the
\* position of the element in the stream of draws
RandnSeq == <<0, 1, -1, 2>>
Randn(seed, i) == RandnSeq[((seed + i) % Len(RandnSeq)) + 1]

EncOut == 0 .. (NLatent * NLabels - 1)

\* the state_dict of the reference single-cell model, sc_state_dict
ScStateDict(d) ==
    [dec |-> [W |-> [l \in Latents |-> 1 + ((l + d) % 2)],
              C |-> [c \in Labels |-> c - d]],
     px  |-> [W |-> [g \in Genes |-> 1],
              B |-> [g \in Genes |-> (g + d) % 2]],
     px_r |-> [g \in Genes |-> ((g + d) % 3) - 1]]

\* the registered spatial dataset
Dataset(d) == [s \in Spots |-> [g \in Genes |-> (s + g + d) % (MaxCount + 1)]]

\* the optional VAMP prior arrays, [n_labels, p, n_latent]
VampBank(kind, p) ==
    [mean |-> [c \in Labels |-> [j \in 0 .. (p - 1) |-> [l \in Latents |->
                  IF kind = "unit" THEN 0 ELSE (c + j + l) % 2]]],
     var  |-> [c \in Labels |-> [j \in 0 .. (p - 1) |-> [l \in Latents |->
                  IF kind = "unit" THEN 1 ELSE 1 + 3 * ((j + l) % 2)]]]]

VampChoices ==
    {None} \cup {Some(VampBank("unit", p)) : p \in 1 .. MaxP}
           \cup {Some(VampBank("spread", MaxP))}

\* (variant: the reference parameters left trainable)
InitRequiresGradAll ==
    [t \in TensorNames |-> TRUE]

InitRequiresGrad ==
    [t \in TensorNames |-> t \notin FrozenNames]

\* (variant: the rows numbered from one)
ObsIndicesOneBased == [s \in Spots |-> s + 1]

\* st_adata.obs["_indices"] = np.arange(st_adata.n_obs)
ObsIndices == [s \in Spots |-> s]

\* DestVI.__init__ and HSTDeconv.__init__
Construct(seed, mode, bank) ==
        /\ amortization = mode
        /\ decoder = ScStateDict(seed).dec
        /\ px_decoder = ScStateDict(seed).px
        /\ px_o = ScStateDict(seed).px_r
        /\ requires_grad = InitRequiresGrad
        /\ V = [k \in Components |-> [s \in Spots |-> Randn(seed, k * NSpots + s)]]
        /\ gamma = [l \in Latents |-> [c \in Labels |-> [s \in Spots |->
                      Randn(seed, 1 + (l * NLabels + c) * NSpots + s)]]]
        /\ mean_vprior = IF bank.some THEN Some(bank.val.mean) ELSE None
        /\ var_vprior = IF bank.some THEN Some(bank.val.var) ELSE None
        /\ eta = [g \in Genes |-> Randn(seed, 2 + g)]
        /\ beta = [g \in Genes |-> 0]
        /\ gamma_encoder = [W |-> [j \in EncOut |-> Randn(seed, j)],
                            B |-> [j \in EncOut |-> Randn(seed, 1 + j)]]
        /\ V_encoder = [W |-> [k \in Components |-> Randn(seed, 3 + k)],
                        B |-> [k \in Components |-> Randn(seed, 2 + k)]]
        /\ X = Dataset(seed)
        /\ obs_indices = ObsIndices
        /\ tensors = None
        /\ op = "init"
        /\ result = None
        /\ enc_log = {}
        /\ nsteps = 0
        /\ is_trained_ = FALSE

\* ------------------------------------------------------------- Autotune
\* the hyperparameter names a search may declare, and the candidate values
\* of one search space
HyperKeys == {"dropout_rate", "max_epochs", "lr"}
SearchSpace == {1, 2}

\* a hyperparameter dict: a search space for each key it declares
HyperDict(S) == [k \in S |-> SearchSpace]
HyperDicts == {HyperDict(S) : S \in SUBSET HyperKeys}

\* the default arguments: three empty dicts
NoTuner == [model_hyperparams |-> HyperDict({}),
            trainer_hyperparams |-> HyperDict({}),
            plan_hyperparams |-> HyperDict({})]

Tuners == [model_hyperparams : HyperDicts,
           trainer_hyperparams : HyperDicts,
           plan_hyperparams : HyperDicts]

\* every reference model in every mode; a bank of pseudo-points is supplied
\* with the first reference model
Init ==
    \E seed \in 0 .. MaxSeed, mode \in Modes, bank \in VampChoices :
        /\ bank.some => seed = 0
        /\ Construct(seed, mode, bank)
        /\ tuner = NoTuner

\* ---------------------------------------------------------- the networks
BatchSize(x) == Cardinality(DOMAIN x)

\* a feed-forward encoder applied to a [batch, n_genes] input: one output
\* row per input row, a function of the weights and of that row only
EncoderForward(enc, inp) ==
    [i \in DOMAIN inp |-> [j \in DOMAIN enc.W |->
        ((enc.W[j] * SumOver(inp[i], Genes)) \div Q) + enc.B[j]]]

\* decoder(z, label): first stage, conditioned on the cell-type label
DecoderForward(z, label) ==
    SumOver([l \in Latents |-> decoder.W[l] * z[l]], Latents) + decoder.C[label]

\* px_decoder(h): linear projection to gene space followed by softplus
PxDecoderForward(h) ==
    [g \in Genes |-> Softplus(px_decoder.W[g] * h + px_decoder.B[g])]

\* elementwise transforms of a [batch, n_genes] count matrix
Log1pRows(x) == [i \in DOMAIN x |-> [g \in Genes |-> Log1p(x[i][g])]]
RawRows(x) == [i \in DOMAIN x |-> [g \in Genes |-> Raw(x[i][g])]]

\* torch.transpose(out, 0, 1).reshape((n_latent, n_labels, -1)) of an
\* encoder output out of shape [batch, n_latent * n_labels]
\* (variant: the reshape applied without the transpose)
ReshapeLatentNoTranspose(out) ==
    LET M == BatchSize(out)
        flat == [f \in 0 .. (NLatent * NLabels * M - 1) |->
                    out[f \div (NLatent * NLabels)][f % (NLatent * NLabels)]]
    IN [l \in Latents |-> [c \in Labels |-> [i \in 0 .. (M - 1) |->
            flat[(l * NLabels + c) * M + i]]]]

ReshapeLatent(out) ==
    LET M == BatchSize(out)
        flat == [f \in 0 .. (NLatent * NLabels * M - 1) |-> out[f % M][f \div M]]
    IN [l \in Latents |-> [c \in Labels |-> [i \in 0 .. (M - 1) |->
            flat[(l * NLabels + c) * M + i]]]]

\* the mode tests
\* (variant: the latent test written with the loading modes)
AmortizedLatentSwapped(mode) == mode \in {"proportion", "both"}
AmortizedLatent(mode) == mode \in {"latent", "both"}
AmortizedProportion(mode) == mode \in {"both", "proportion"}

\* one entry of the log of encoder invocations
EncCall(name, inp, x) == [enc |-> name, input |-> inp, x |-> x]

\* ------------------------------------------------ HSTDeconv.get_proportions
\* (variant: the first column dropped instead of the last)
KeptColumnsDropFirst(keep_noise) == IF keep_noise THEN Components ELSE Components \ {0}

\* the columns kept by res[:, :-1]
KeptColumns(keep_noise) == IF keep_noise THEN Components ELSE Labels

\* res / res.sum(axis=1).reshape(-1, 1): each entry as the exact quotient
\* <<entry, row sum>>; with a zero row sum the entry is <<0, 0>>, the NaN
\* that floating-point division 0 / 0 produces
NormalizeRows(res, cols) ==
    [i \in DOMAIN res |-> [k \in cols |-> <<res[i][k], SumOver(res[i], cols)>>]]

\* the input handed to the loading encoder by get_proportions
ProportionsEncoderInput(x) == RawRows(x)

ModuleGetProportions(x, keep_noise) ==
    LET args == [x |-> x, keep_noise |-> keep_noise] IN
    IF AmortizedProportion(amortization)
    THEN IF ~x.some
         THEN [res |-> Raise(args, "TypeError"), log |-> {}]
         ELSE LET inp == ProportionsEncoderInput(x.val)
                  out == EncoderForward(V_encoder, inp)
                  res == [i \in DOMAIN out |-> [k \in Components |-> Softplus(out[i][k])]]
              IN [res |-> Return(args, NormalizeRows(res, KeptColumns(keep_noise))),
                  log |-> {EncCall("V_encoder", inp, x.val)}]
    ELSE LET res == [s \in Spots |-> [k \in Components |-> Softplus(V[k][s])]]
         IN [res |-> Return(args, NormalizeRows(res, KeptColumns(keep_noise))),
             log |-> {}]

\* ------------------------------------------------------ HSTDeconv.get_gamma
GammaEncoderInput(x) == RawRows(x)

\* (variant: a missing x falls back on the stored tensor)
ModuleGetGammaLenient(x) ==
    LET args == [x |-> x] IN
    IF AmortizedLatent(amortization) /\ x.some
    THEN LET inp == GammaEncoderInput(x.val)
         IN [res |-> Return(args, ReshapeLatent(EncoderForward(gamma_encoder, inp))),
             log |-> {EncCall("gamma_encoder", inp, x.val)}]
    ELSE [res |-> Return(args, gamma), log |-> {}]

ModuleGetGamma(x) ==
    LET args == [x |-> x] IN
    IF AmortizedLatent(amortization)
    THEN IF ~x.some
         THEN [res |-> Raise(args, "TypeError"), log |-> {}]
         ELSE LET inp == GammaEncoderInput(x.val)
              IN [res |-> Return(args, ReshapeLatent(EncoderForward(gamma_encoder, inp))),
                  log |-> {EncCall("gamma_encoder", inp, x.val)}]
    ELSE [res |-> Return(args, gamma), log |-> {}]

\* ----------------------------------------------------- latent selection
\* the latent codes of a minibatch, [n_latent, n_labels, batch]: from the
\* latent encoder applied to x_ or from the stored tensor at ind_x
LatentOf(x_, ind_x) ==
    IF AmortizedLatent(amortization)
    THEN ReshapeLatent(EncoderForward(gamma_encoder, x_))
    ELSE [l \in Latents |-> [c \in Labels |-> [i \in DOMAIN ind_x |->
             gamma[l][c][ind_x[i]]]]]

\* the loadings of a minibatch before softplus, [batch, n_labels + 1]
LoadingOf(x_, ind_x) ==
    IF AmortizedProportion(amortization)
    THEN EncoderForward(V_encoder, x_)
    ELSE [i \in DOMAIN ind_x |-> [k \in Components |-> V[k][ind_x[i]]]]

\* ------------------------------------- HSTDeconv.get_ct_specific_expression
CtEncoderInput(x) == Log1pRows(x)

\* (variant: the slice of the first cell type for every row)
GammaSelectFirstLabel(gamma_ind, y) ==
    [i \in DOMAIN y |-> [l \in Latents |-> gamma_ind[l][0][i]]]

\* gamma_ind[:, y[:, 0], torch.arange(ind_x.shape[0])].T
GammaSelect(gamma_ind, y) ==
    [i \in DOMAIN y |-> [l \in Latents |-> gamma_ind[l][y[i]][i]]]

ModuleGetCtSpecificExpression(x, ind_x, y) ==
    LET args == [x |-> x, ind_x |-> ind_x, y |-> y]
        betaS == [g \in Genes |-> Softplus(beta[g])]
    IN
    IF AmortizedLatent(amortization) /\ ~x.some
    THEN [res |-> Raise(args, "TypeError"), log |-> {}]
    ELSE LET x_ == IF x.some THEN CtEncoderInput(x.val) ELSE <<>>
             gamma_ind == LatentOf(x_, ind_x)
             gamma_select == GammaSelect(gamma_ind, y)
             h == [i \in DOMAIN ind_x |-> DecoderForward(gamma_select[i], y[i])]
             px_scale == [i \in DOMAIN ind_x |-> PxDecoderForward(h[i])]
             px_ct == [i \in DOMAIN ind_x |-> [g \in Genes |->
                          Mul(Mul(Exp(px_o[g]), betaS[g]), px_scale[i][g])]]
         IN [res |-> Return(args, [px_ct |-> px_ct, gamma_select |-> gamma_select]),
             log |-> IF AmortizedLatent(amortization)
                     THEN {EncCall("gamma_encoder", x_, x.val)} ELSE {}]

\* ----------------------------------------------------- HSTDeconv.generative
GenerativeEncoderInput(x) == Log1pRows(x)

\* (variant: each label repeated M times in a row)
EnumLabelInterleaved(M) == [r \in 0 .. (M * NLabels - 1) |-> r \div M]

\* torch.arange(0, n_labels).repeat(M)
EnumLabel(M) == [r \in 0 .. (M * NLabels - 1) |-> r % NLabels]

ModuleGenerative(x, ind_x) ==
    LET M == BatchSize(x)
        B == 0 .. (M - 1)
        library == [i \in B |-> SumOver(x[i], Genes)]
        betaS == [g \in Genes |-> Softplus(beta[g])]
        eps == [g \in Genes |-> Softplus(eta[g])]
        x_ == GenerativeEncoderInput(x)
        gamma_ind == LatentOf(x_, ind_x)
        v_pre == LoadingOf(x_, ind_x)
        v_ind == [i \in B |-> [k \in Components |-> Softplus(v_pre[i][k])]]
        \* torch.transpose(gamma_ind, 2, 0): [batch, n_labels, n_latent]
        gamma_t == [i \in B |-> [c \in Labels |-> [l \in Latents |-> gamma_ind[l][c][i]]]]
        \* reshape((-1, n_latent)), through the row-major flat order
        flat == [f \in 0 .. (M * NLabels * NLatent - 1) |->
                    gamma_t[f \div (NLabels * NLatent)][(f \div NLatent) % NLabels][f % NLatent]]
        gamma_reshape == [r \in 0 .. (M * NLabels - 1) |-> [l \in Latents |->
                             flat[r * NLatent + l]]]
        enum_label == EnumLabel(M)
        h == [r \in 0 .. (M * NLabels - 1) |-> DecoderForward(gamma_reshape[r], enum_label[r])]
        px == [r \in 0 .. (M * NLabels - 1) |-> PxDecoderForward(h[r])]
        \* reshape((M, n_labels, -1))
        px_rate3 == [i \in B |-> [c \in Labels |-> px[i * NLabels + c]]]
        \* torch.cat([beta * px_rate, eps], dim=1): [batch, n_labels + 1, n_genes]
        r_hat == [i \in B |-> [k \in Components |-> [g \in Genes |->
                     IF k < NLabels THEN Mul(betaS[g], px_rate3[i][k][g]) ELSE eps[g]]]]
        px_scale == [i \in B |-> [g \in Genes |->
                        SumOver([k \in Components |-> Mul(v_ind[i][k], r_hat[i][k][g])],
                                Components)]]
        px_rate == [i \in B |-> [g \in Genes |-> library[i] * px_scale[i][g]]]
        log == (IF AmortizedLatent(amortization)
                THEN {EncCall("gamma_encoder", x_, x)} ELSE {})
               \cup (IF AmortizedProportion(amortization)
                     THEN {EncCall("V_encoder", x_, x)} ELSE {})
    IN [res |-> Return([x |-> x, ind_x |-> ind_x],
                       [px_o |-> px_o, px_rate |-> px_rate, px_scale |-> px_scale,
                        gamma |-> gamma_t, v |-> v_ind,
                        \* the intermediate tensors of the step
                        locals |-> [gamma_reshape |-> gamma_reshape,
                                    enum_label |-> enum_label,
                                    px_rate |-> px_rate3, r_hat |-> r_hat]]),
        log |-> log]

\* ------------------------------------------------------ numeric functions
\* the finer quantum the series below are evaluated in
QQ == 10000

\* exp(-d / Q) for d >= 0, in units of 1/QQ: e^-1 per whole unit, then the
\* Taylor series of the fractional part
RECURSIVE ExpNegFine(_)
ExpNegFine(d) ==
    IF d >= 20 * Q THEN 0
    ELSE IF d >= Q THEN (3679 * ExpNegFine(d - Q)) \div QQ
    ELSE LET r == d * (QQ \div Q)
             r2 == (r * r) \div QQ
             r3 == (r2 * r) \div QQ
             r4 == (r3 * r) \div QQ
             r5 == (r4 * r) \div QQ
             r6 == (r5 * r) \div QQ
         IN QQ - r + (r2 \div 2) - (r3 \div 6) + (r4 \div 24) - (r5 \div 120) + (r6 \div 720)

\* log(s / QQ) for s >= QQ, in units of 1/QQ: divide by e while above e,
\* then the series 2 * atanh((u - 1) / (u + 1))
RECURSIVE LnFine(_)
LnFine(s) ==
    IF s >= 27183 THEN QQ + LnFine((s * QQ) \div 27183)
    ELSE LET t == ((s - QQ) * QQ) \div (s + QQ)
             t2 == (t * t) \div QQ
             t3 == (t2 * t) \div QQ
             t5 == (t3 * t2) \div QQ
             t7 == (t5 * t2) \div QQ
             t9 == (t7 * t2) \div QQ
         IN 2 * (t + (t3 \div 3) + (t5 \div 5) + (t7 \div 7) + (t9 \div 9))

\* np.log / torch.log of a whole number n >= 1, in units of 1/Q
Ln(n) == LnFine(n * QQ) \div (QQ \div Q)

Max(S) == CHOOSE m \in S : \A e \in S : e <= m

\* torch.logsumexp over the values of f: shift by the maximum
LogSumExp(f) ==
    LET m == Max({f[j] : j \in DOMAIN f})
        total == SumOver([j \in DOMAIN f |-> ExpNegFine(m - f[j])], DOMAIN f)
    IN m + (LnFine(total) \div (QQ \div Q))

\* torch.sqrt of a variance that is a perfect square
Sqrt(v) == CHOOSE r \in 0 .. v : r * r = v

\* Normal(mean, scale).log_prob(v), in units of 1/Q; 919 is log(2 pi) / 2
HalfLog2Pi == 919
NormalLogProb(v, mean, scale) ==
    0 - ((Q * (v - mean) * (v - mean)) \div (2 * scale * scale)) - Ln(scale) - HalfLog2Pi

\* ----------------------------------------------------------- HSTDeconv.loss
\* the global hyperprior on eta, a scalar
GloNegLogLikelihoodPrior ==
    SumOver([g \in Genes |-> 0 - NormalLogProb(eta[g], 0, 1)], Genes)

\* (variant: the mixture log-density without the - log(p) term)
NegLogLikelihoodPriorUnnormalized(g) ==
    IF ~mean_vprior.some
    THEN [i \in DOMAIN g |->
            SumOver([c \in Labels |->
                SumOver([l \in Latents |-> 0 - NormalLogProb(g[i][c][l], 0, 1)], Latents)],
                Labels)]
    ELSE LET mean == mean_vprior.val
             var == var_vprior.val
             P == DOMAIN mean[0]
             pre_lse == [i \in DOMAIN g |-> [j \in P |-> [c \in Labels |->
                            SumOver([l \in Latents |->
                                NormalLogProb(g[i][c][l], mean[c][j][l], Sqrt(var[c][j][l]))],
                                Latents)]]]
             log_likelihood_prior == [i \in DOMAIN g |-> [c \in Labels |->
                            LogSumExp([j \in P |-> pre_lse[i][j][c]])]]
         IN [i \in DOMAIN g |-> 0 - SumOver(log_likelihood_prior[i], Labels)]

\* the latent prior, one value per spot; g is [batch, n_labels, n_latent]
NegLogLikelihoodPrior(g) ==
    IF ~mean_vprior.some
    THEN [i \in DOMAIN g |->
            SumOver([c \in Labels |->
                SumOver([l \in Latents |-> 0 - NormalLogProb(g[i][c][l], 0, 1)], Latents)],
                Labels)]
    ELSE LET mean == mean_vprior.val
             var == var_vprior.val
             P == DOMAIN mean[0]
             p == Cardinality(P)
             pre_lse == [i \in DOMAIN g |-> [j \in P |-> [c \in Labels |->
                            SumOver([l \in Latents |->
                                NormalLogProb(g[i][c][l], mean[c][j][l], Sqrt(var[c][j][l]))],
                                Latents)]]]
             log_likelihood_prior == [i \in DOMAIN g |-> [c \in Labels |->
                            LogSumExp([j \in P |-> pre_lse[i][j][c]]) - Ln(p)]]
         IN [i \in DOMAIN g |-> 0 - SumOver(log_likelihood_prior[i], Labels)]

\* (variant: the hyperprior added inside the rescaled mean)
TotalLossGloScaled(reconst_loss, prior, glo, kl_weight, n_obs) ==
    LET B == DOMAIN reconst_loss
        M == Cardinality(B)
        total == SumOver([i \in B |-> reconst_loss[i] + Mul(kl_weight, prior[i]) + glo], B)
    IN <<n_obs * total, M>>

\* n_obs * torch.mean(reconst_loss + kl_weight * prior) + glo, kept as the
\* exact quotient <<numerator, denominator>>
TotalLoss(reconst_loss, prior, glo, kl_weight, n_obs) ==
    LET B == DOMAIN reconst_loss
        M == Cardinality(B)
        total == SumOver([i \in B |-> reconst_loss[i] + Mul(kl_weight, prior[i])], B)
    IN <<n_obs * total + glo * M, M>>

\* reconst_loss is the negative log-probability that the NegativeBinomial
\* of the distributions library gives to x, one value per spot
ModuleLoss(generative_outputs, reconst_loss, kl_weight, n_obs) ==
    LET prior == NegLogLikelihoodPrior(generative_outputs.gamma)
        glo == GloNegLogLikelihoodPrior
    IN Return([kl_weight |-> kl_weight, n_obs |-> n_obs, nb_neg_log_prob |-> reconst_loss],
              [loss |-> TotalLoss(reconst_loss, prior, glo, kl_weight, n_obs),
               reconstruction_loss |-> reconst_loss,
               kl_local |-> prior,
               kl_global |-> glo])

\* ---------------------------------------------------- DestVI (model class)
\* batch_size of the DataLoader the dataset-level accessors loop with
DataLoaderBatchSize == 128

CellTypeNames == <<"ct0", "ct1", "ct2", "ct3", "ct4">>
\* self.cell_type_mapping, the ordered names of the n_labels cell types
cell_type_mapping == [c \in 1 .. NLabels |-> CellTypeNames[c]]

\* the rows of data that the DataLoader yields as its c-th batch
Chunk(data, c) ==
    LET n == Cardinality(DOMAIN data)
        first == c * DataLoaderBatchSize
        last == IF first + DataLoaderBatchSize < n THEN first + DataLoaderBatchSize ELSE n
    IN [r \in 0 .. (last - first - 1) |-> data[first + r]]

\* pd.DataFrame(data=data, columns=column_names, index=index)
DataFrame(args, data, column_names, index, log) ==
    IF \/ \E i \in DOMAIN data : Cardinality(DOMAIN data[i]) # Len(column_names)
       \/ Cardinality(DOMAIN data) # Cardinality(DOMAIN index)
    THEN [res |-> Raise(args, "ValueError"), log |-> log]
    ELSE [res |-> Return(args, [data |-> data, columns |-> column_names, index |-> index]),
          log |-> log]

DestVIGetProportions(dataset, keep_noise) ==
    LET args == [dataset |-> dataset, keep_noise |-> keep_noise]
        column_names == IF keep_noise THEN Append(cell_type_mapping, "noise_term")
                        ELSE cell_type_mapping
    IN
    IF AmortizedProportion(amortization)
    THEN IF ~dataset.some
         THEN [res |-> Raise(args, "AttributeError"), log |-> {}]
         ELSE LET data == dataset.val
                  prop_local(c) == ModuleGetProportions(Some(Chunk(data, c)), FALSE)
                  cat == [i \in DOMAIN data |->
                             prop_local(i \div DataLoaderBatchSize).res.val[i % DataLoaderBatchSize]]
                  log == UNION {prop_local(i \div DataLoaderBatchSize).log : i \in DOMAIN data}
              IN DataFrame(args, cat, column_names, obs_indices, log)
    ELSE DataFrame(args, ModuleGetProportions(None, keep_noise).res.val,
                   column_names, obs_indices, {})

DestVIGetGamma(dataset) ==
    LET args == [dataset |-> dataset] IN
    IF AmortizedLatent(amortization)
    THEN IF ~dataset.some
         THEN [res |-> Raise(args, "AttributeError"), log |-> {}]
         ELSE LET data == dataset.val
                  gamma_local(c) == ModuleGetGamma(Some(Chunk(data, c)))
                  \* torch.cat(gamma_, dim=-1)
                  cat == [l \in Latents |-> [c \in Labels |-> [i \in DOMAIN data |->
                             gamma_local(i \div DataLoaderBatchSize).res.val[l][c][i % DataLoaderBatchSize]]]]
                  log == UNION {gamma_local(i \div DataLoaderBatchSize).log : i \in DOMAIN data}
              IN [res |-> Return(args, [s \in DOMAIN data |-> [l \in Latents |-> [c \in Labels |->
                                            cat[l][c][s]]]]),
                  log |-> log]
    ELSE LET data == ModuleGetGamma(None).res.val
         IN [res |-> Return(args, [s \in Spots |-> [l \in Latents |-> [c \in Labels |->
                                       data[l][c][s]]]]),
             log |-> {}]

\* the batches of get_scale_for_ct, decoded one after the other and
\* concatenated
ScaleForCtBatches(x, ind_x, y) ==
    LET args == [x |-> x, ind_x |-> ind_x, y |-> y] IN
    IF ~x.some
    THEN [res |-> Raise(args, "TypeError"), log |-> {}]
    ELSE LET local(c) == ModuleGetCtSpecificExpression(Some(Chunk(x.val, c)),
                                                       Chunk(ind_x, c), Chunk(y, c))
             scale == [i \in DOMAIN x.val |->
                          local(i \div DataLoaderBatchSize).res.val.px_ct[i % DataLoaderBatchSize]]
             log == UNION {local(i \div DataLoaderBatchSize).log : i \in DOMAIN x.val}
         IN [res |-> Return(args, scale), log |-> log]

\* (variant: the trained status is not looked at)
DestVIGetScaleForCtUnchecked(x, ind_x, y) == ScaleForCtBatches(x, ind_x, y)

DestVIGetScaleForCt(x, ind_x, y) ==
    IF is_trained_ = FALSE
    THEN [res |-> Raise([x |-> x, ind_x |-> ind_x, y |-> y], "RuntimeError"), log |-> {}]
    ELSE ScaleForCtBatches(x, ind_x, y)

\* ----------------------------------------------------------------- actions
\* the minibatches: M consecutive rows of the dataset, from the first or
\* from the last row, wrapping around
Batches == {[i \in 0 .. (M - 1) |-> (first + i) % NSpots] :
                first \in {0, NSpots - 1}, M \in 1 .. MaxBatch}
\* the cell types queried for the rows of a minibatch
LabelQueries(B) == {[i \in B |-> (c + i * step) % NLabels] :
                       c \in Labels, step \in 0 .. 1}
ReconVals == {700, 1500}
ReconLosses(B) == {[i \in B |-> r + 100 * i] : r \in ReconVals}

\* no call is in progress: the previous one has returned to its caller
Idle == op \in {"init", "load", "optimizer", "done"}
KlWeights == {0, 500, 1000}
OptDeltas == {-110, 1}

Finish(name, out) ==
    /\ op' = name
    /\ result' = out.res
    /\ enc_log' = out.log

\* the data loader hands the next minibatch of the registered dataset over
LoadMinibatch ==
    /\ Idle
    /\ \E b \in Batches :
        /\ tensors' = Some([X |-> [i \in DOMAIN b |-> X[b[i]]],
                            ind_x |-> [i \in DOMAIN b |-> obs_indices[b[i]]]])
        /\ Finish("load", [res |-> Return(<<>>, <<>>), log |-> {}])
        /\ UNCHANGED <<frozen, learned, config, nsteps, is_trained_>>

Inference ==
    /\ Idle
    /\ Finish("inference", [res |-> Return(<<>>, <<>>), log |-> {}])
    /\ UNCHANGED <<frozen, learned, config, tensors, nsteps, is_trained_>>

\* (variant: the step stores the latent codes it used back into self.gamma)
GenerativeCaching ==
    /\ Idle
    /\ tensors.some
    /\ LET out == ModuleGenerative(tensors.val.X, tensors.val.ind_x)
           ind_x == tensors.val.ind_x
       IN /\ Finish("generative", out)
          /\ gamma' = [l \in Latents |-> [c \in Labels |-> [s \in Spots |->
                          IF \E i \in DOMAIN ind_x : ind_x[i] = s
                          THEN out.res.val.gamma[CHOOSE i \in DOMAIN ind_x : ind_x[i] = s][c][l]
                          ELSE gamma[l][c][s]]]]
    /\ UNCHANGED <<frozen, V, eta, beta, gamma_encoder, V_encoder, config, tensors, nsteps, is_trained_>>

Generative ==
    /\ Idle
    /\ tensors.some
    /\ Finish("generative", ModuleGenerative(tensors.val.X, tensors.val.ind_x))
    /\ UNCHANGED <<frozen, learned, config, tensors, nsteps, is_trained_>>

Loss ==
    /\ op = "generative"
    /\ \E kl_weight \in KlWeights, n_obs \in {1, NSpots},
          reconst_loss \in ReconLosses(DOMAIN tensors.val.X) :
            Finish("loss", [res |-> ModuleLoss(result.val, reconst_loss, kl_weight, n_obs),
                            log |-> {}])
    /\ UNCHANGED <<frozen, learned, config, tensors, nsteps, is_trained_>>

\* the x a query is called with: omitted, or the counts of the minibatch
QueryX == {None} \cup (IF tensors.some THEN {Some(tensors.val.X)} ELSE {})

GetProportions ==
    /\ Idle
    /\ \E x \in QueryX, keep_noise \in BOOLEAN :
          Finish("get_proportions", ModuleGetProportions(x, keep_noise))
    /\ UNCHANGED <<frozen, learned, config, tensors, nsteps, is_trained_>>

GetGamma ==
    /\ Idle
    /\ \E x \in QueryX : Finish("get_gamma", ModuleGetGamma(x))
    /\ UNCHANGED <<frozen, learned, config, tensors, nsteps, is_trained_>>

GetCtSpecificExpression ==
    /\ Idle
    /\ tensors.some
    /\ \E x \in QueryX, y \in LabelQueries(DOMAIN tensors.val.ind_x) :
          Finish("get_ct_specific_expression",
                 ModuleGetCtSpecificExpression(x, tensors.val.ind_x, y))
    /\ UNCHANGED <<frozen, learned, config, tensors, nsteps, is_trained_>>

\* (variant: sampling attempted through the generative step)
SampleComputing ==
    /\ Idle
    /\ \E n_samples \in 1 .. 2 :
          IF tensors.some
          THEN Finish("sample",
                      [res |-> Return([n_samples |-> n_samples],
                                      ModuleGenerative(tensors.val.X, tensors.val.ind_x).res.val.px_rate),
                       log |-> ModuleGenerative(tensors.val.X, tensors.val.ind_x).log])
          ELSE Finish("sample", [res |-> Raise([n_samples |-> n_samples], "NotImplementedError"),
                                 log |-> {}])
    /\ UNCHANGED <<frozen, learned, config, tensors, nsteps, is_trained_>>

Sample ==
    /\ Idle
    /\ \E n_samples \in 1 .. 2 :
          Finish("sample", [res |-> Raise([n_samples |-> n_samples], "NotImplementedError"),
                            log |-> {}])
    /\ UNCHANGED <<frozen, learned, config, tensors, nsteps, is_trained_>>

ModelGetProportions ==
    /\ Idle
    /\ \E dataset \in {None, Some(X)}, keep_noise \in BOOLEAN :
          Finish("DestVI.get_proportions", DestVIGetProportions(dataset, keep_noise))
    /\ UNCHANGED <<frozen, learned, config, tensors, nsteps, is_trained_>>

ModelGetGamma ==
    /\ Idle
    /\ \E dataset \in {None, Some(X)} :
          Finish("DestVI.get_gamma", DestVIGetGamma(dataset))
    /\ UNCHANGED <<frozen, learned, config, tensors, nsteps, is_trained_>>

ModelGetScaleForCt ==
    /\ Idle
    /\ tensors.some
    /\ \E x \in QueryX, y \in LabelQueries(DOMAIN tensors.val.ind_x) :
          Finish("DestVI.get_scale_for_ct",
                 DestVIGetScaleForCt(x, tensors.val.ind_x, y))
    /\ UNCHANGED <<frozen, learned, config, tensors, nsteps, is_trained_>>

\* the optimizer: between minibatches, writes every tensor that tracks a
\* gradient and no other
Shift(t, d) ==
    CASE t = "V" -> [k \in DOMAIN V |-> [s \in DOMAIN V[k] |-> V[k][s] + d]]
      [] t = "gamma" -> [l \in Latents |-> [c \in Labels |-> [s \in Spots |-> gamma[l][c][s] + d]]]
      [] t = "eta" -> [g \in Genes |-> eta[g] + d]
      [] t = "beta" -> [g \in Genes |-> beta[g] + d]
      [] t = "gamma_encoder" -> [W |-> gamma_encoder.W,
                                 B |-> [j \in EncOut |-> gamma_encoder.B[j] + d]]
      [] t = "V_encoder" -> [W |-> V_encoder.W,
                             B |-> [k \in Components |-> V_encoder.B[k] + d]]
      [] t = "decoder" -> [W |-> decoder.W, C |-> [c \in Labels |-> decoder.C[c] + d]]
      [] t = "px_decoder" -> [W |-> px_decoder.W, B |-> [g \in Genes |-> px_decoder.B[g] + d]]
      [] t = "px_o" -> [g \in Genes |-> px_o[g] + d]

Current(t) ==
    CASE t = "V" -> V [] t = "gamma" -> gamma [] t = "eta" -> eta [] t = "beta" -> beta
      [] t = "gamma_encoder" -> gamma_encoder [] t = "V_encoder" -> V_encoder
      [] t = "decoder" -> decoder [] t = "px_decoder" -> px_decoder [] t = "px_o" -> px_o

Stepped(t, d) == IF requires_grad[t] THEN Shift(t, d) ELSE Current(t)

OptimizerStep ==
    /\ nsteps < MaxSteps
    /\ Idle
    /\ \E d \in OptDeltas :
        /\ V' = Stepped("V", d)
        /\ gamma' = Stepped("gamma", d)
        /\ eta' = Stepped("eta", d)
        /\ beta' = Stepped("beta", d)
        /\ gamma_encoder' = Stepped("gamma_encoder", d)
        /\ V_encoder' = Stepped("V_encoder", d)
        /\ decoder' = Stepped("decoder", d)
        /\ px_decoder' = Stepped("px_decoder", d)
        /\ px_o' = Stepped("px_o", d)
    /\ nsteps' = nsteps + 1
    \* train() marks the model trained when the fit is over
    /\ is_trained_' = TRUE
    /\ tensors' = None
    /\ Finish("optimizer", [res |-> Return(<<>>, <<>>), log |-> {}])
    /\ UNCHANGED config

\* the call returns: its caller takes the result
Done ==
    /\ ~Idle
    /\ Finish("done", [res |-> Return(<<>>, <<>>), log |-> {}])
    /\ UNCHANGED <<frozen, learned, config, tensors, nsteps, is_trained_>>

Next ==
    \/ LoadMinibatch
    \/ Inference
    \/ Generative
    \/ Loss
    \/ GetProportions
    \/ GetGamma
    \/ GetCtSpecificExpression
    \/ Sample
    \/ ModelGetProportions
    \/ ModelGetGamma
    \/ ModelGetScaleForCt
    \/ OptimizerStep
    \/ Done

Spec == Init /\ [][Next]_vars

\* ------------------------------------------------------ Autotune, steps
\* self.config: the three dicts merged by dict.update, in this order
TunerConfig ==
    LET m == tuner.model_hyperparams
        t == tuner.trainer_hyperparams
        p == tuner.plan_hyperparams
    IN [k \in DOMAIN m \cup DOMAIN t \cup DOMAIN p |->
            IF k \in DOMAIN p THEN p[k] ELSE IF k \in DOMAIN t THEN t[k] ELSE m[k]]

\* the configurations tune.run draws from self.config: one value of its
\* search space for every key
SampledConfigs == {c \in [DOMAIN TunerConfig -> SearchSpace] :
                      \A k \in DOMAIN c : c[k] \in TunerConfig[k]}

\* the for loop over the keys of a configuration: if / elif / elif
SplitConfig(cfg) ==
    LET to_model == {key \in DOMAIN cfg : key \in DOMAIN tuner.trainer_hyperparams}
        to_trainer == {key \in DOMAIN cfg \ to_model :
                          key \in DOMAIN tuner.trainer_hyperparams}
        to_plan == {key \in (DOMAIN cfg \ to_model) \ to_trainer :
                       key \in DOMAIN tuner.trainer_hyperparams}
    IN [model_config |-> [key \in to_model |-> cfg[key]],
        trainer_config |-> [key \in to_trainer |-> cfg[key]],
        plan_config |-> [key \in to_plan |-> cfg[key]]]

\* one trial: the model is built with model_config and trained with
\* trainer_config and plan_kwargs=plan_config
ScviTrainable ==
    /\ \E cfg \in SampledConfigs :
          Finish("Autotune._scvi_trainable",
                 [res |-> Return([config |-> cfg], SplitConfig(cfg)), log |-> {}])
    /\ UNCHANGED <<frozen, learned, config, tensors, nsteps, is_trained_>>

\* the end of run: the best configuration is split the same way and the
\* best model rebuilt with model_config
Run ==
    /\ \E best_config \in SampledConfigs :
          Finish("Autotune.run",
                 [res |-> Return([config |-> best_config], SplitConfig(best_config)),
                  log |-> {}])
    /\ UNCHANGED <<frozen, learned, config, tensors, nsteps, is_trained_>>

InitAutotune ==
    /\ Construct(0, "none", None)
    /\ tuner \in Tuners

NextAutotune ==
    \/ ScviTrainable
    \/ Run

SpecAutotune == InitAutotune /\ [][NextAutotune]_vars

\* ------------------------------------------------------------- properties
Returned == result.kind = "return"
Raised == result.kind = "raise"

\* C1: in the generative step the latent codes come from the latent encoder
\* (applied to log1p(x)) exactly in the modes latent and both, and from the
\* stored gamma at ind_x otherwise; the loadings come from the loading
\* encoder exactly in the modes proportion and both, and from the stored V
\* at ind_x otherwise; the two choices do not depend on each other.
C1_GenerativeSources ==
    op = "generative" =>
        LET x == result.args.x
            ind_x == result.args.ind_x
            enc_gamma == ReshapeLatent(EncoderForward(gamma_encoder, Log1pRows(x)))
            enc_v == EncoderForward(V_encoder, Log1pRows(x))
            latent_amortized == amortization \in {"latent", "both"}
            loading_amortized == amortization \in {"proportion", "both"}
        IN /\ \A i \in DOMAIN x : \A c \in Labels : \A l \in Latents :
                result.val.gamma[i][c][l] =
                    IF latent_amortized THEN enc_gamma[l][c][i] ELSE gamma[l][c][ind_x[i]]
           /\ \A i \in DOMAIN x : \A k \in Components :
                result.val.v[i][k] =
                    Softplus(IF loading_amortized THEN enc_v[i][k] ELSE V[k][ind_x[i]])
           /\ (\E e \in enc_log : e.enc = "gamma_encoder") <=> latent_amortized
           /\ (\E e \in enc_log : e.enc = "V_encoder") <=> loading_amortized

\* a generative step in mode latent whose encoded latent codes differ from
\* the stored ones, and one in mode proportion likewise for the loadings
C1_Witness ==
    /\ op = "generative"
    /\ amortization = "latent"
    /\ \E i \in DOMAIN result.args.x : \E c \in Labels : \E l \in Latents :
          result.val.gamma[i][c][l] # gamma[l][c][result.args.ind_x[i]]
    /\ \E e \in enc_log : e.enc = "gamma_encoder"
    /\ \A i \in DOMAIN result.args.x : \A k \in Components :
          result.val.v[i][k] = Softplus(V[k][result.args.ind_x[i]])

\* C2: every row returned by proportions with keep_noise=False sums to 1
\* and has only non-negative entries (module accessor and dataset-level
\* accessor).
RowSumsToOne(row) ==
    /\ \A k \in DOMAIN row : row[k][2] > 0 /\ row[k][1] >= 0
    /\ \A k \in DOMAIN row : SumOver([j \in DOMAIN row |-> row[j][1]], DOMAIN row) = row[k][2]

C2_RowsSumToOne ==
    /\ (op = "get_proportions" /\ Returned /\ ~result.args.keep_noise) =>
          \A i \in DOMAIN result.val : RowSumsToOne(result.val[i])
    /\ (op = "DestVI.get_proportions" /\ Returned /\ ~result.args.keep_noise) =>
          \A i \in DOMAIN result.val.data : RowSumsToOne(result.val.data[i])

\* the keep_noise=True row with its noise column dropped and the rest
\* renormalized
DropAndRenormalize(row) ==
    [k \in Labels |-> IF row[k][2] = 0 THEN <<0, 0>>
                      ELSE <<row[k][1], SumOver([j \in Labels |-> row[j][1]], Labels)>>]

\* C3: proportions with keep_noise=True has exactly one more column than
\* with keep_noise=False on the same input, and dropping that column and
\* renormalizing reproduces the keep_noise=False output, for the module
\* accessor and for the dataset-level accessor.
C3_KeepNoiseExtraColumn ==
    /\ (op = "get_proportions" /\ Returned /\ result.args.keep_noise) =>
          LET other == ModuleGetProportions(result.args.x, FALSE).res.val
          IN \A i \in DOMAIN result.val :
                /\ Cardinality(DOMAIN result.val[i]) = Cardinality(DOMAIN other[i]) + 1
                /\ DropAndRenormalize(result.val[i]) = other[i]
    /\ (op = "DestVI.get_proportions" /\ result.args.keep_noise) =>
          LET other == DestVIGetProportions(result.args.dataset, FALSE).res
          IN other.kind = "return" =>
                /\ Returned
                /\ Len(result.val.columns) = Len(other.val.columns) + 1
                /\ \A i \in DOMAIN result.val.data :
                      DropAndRenormalize(result.val.data[i]) = other.val.data[i]

\* C4: every encoder invocation, in every operation, receives log(1 + x)
\* of the counts x the caller supplied.
C4_EncodersReceiveLog1p ==
    \A e \in enc_log : e.input = Log1pRows(e.x)

\* C5: proportions never returns a row obtained by dividing by a zero row
\* sum; such a row makes the call raise.
C5_ZeroRowSumRaises ==
    (op = "get_proportions" /\ Returned) =>
        \A i \in DOMAIN result.val : \A k \in DOMAIN result.val[i] :
            result.val[i][k][2] # 0

\* C6: called without x, get_proportions raises exactly when the loadings
\* are amortized (modes proportion and both) and get_gamma raises exactly
\* when the latent codes are amortized (modes latent and both); in mode
\* none both return.  The dataset-level accessors behave alike when the
\* dataset is omitted.
C6_AmortizedRequiresX ==
    /\ (op = "get_proportions" /\ ~result.args.x.some) =>
          (Raised <=> amortization \in {"proportion", "both"})
    /\ (op = "get_gamma" /\ ~result.args.x.some) =>
          (Raised <=> amortization \in {"latent", "both"})
    /\ (op = "DestVI.get_proportions" /\ ~result.args.dataset.some) =>
          (Raised <=> amortization \in {"proportion", "both"})
    /\ (op = "DestVI.get_gamma" /\ ~result.args.dataset.some) =>
          (Raised <=> amortization \in {"latent", "both"})

\* get_gamma called without x in mode both has raised
C6_Witness ==
    /\ op = "get_gamma"
    /\ amortization = "both"
    /\ ~result.args.x.some
    /\ Raised

\* C7: the total is n_obs * mean(reconstruction + kl_weight * latent_prior)
\* + global_hyperprior, with the hyperprior on eta added once and scaled by
\* none of n_obs, the batch size and kl_weight; the record carries the
\* total and the three unscaled components.
C7_TotalLoss ==
    op = "loss" =>
        LET r == result.val
            a == result.args
            B == DOMAIN r.reconstruction_loss
            M == Cardinality(B)
            g == ModuleGenerative(tensors.val.X, tensors.val.ind_x).res.val.gamma
        IN /\ r.loss[2] = M
           /\ r.loss[1] = a.n_obs * SumOver([i \in B |-> r.reconstruction_loss[i]
                                                + Mul(a.kl_weight, r.kl_local[i])], B)
                          + M * r.kl_global
           /\ r.reconstruction_loss = a.nb_neg_log_prob
           /\ r.kl_local = NegLogLikelihoodPrior(g)
           /\ r.kl_global = SumOver([j \in Genes |-> 0 - NormalLogProb(eta[j], 0, 1)], Genes)

\* a loss over a batch of more than one spot, with n_obs > 1 and a
\* fractional kl_weight
C7_Witness ==
    /\ op = "loss"
    /\ Cardinality(DOMAIN result.val.reconstruction_loss) > 1
    /\ result.args.n_obs > 1
    /\ result.args.kl_weight \notin {0, Q}
    /\ result.val.kl_global > 0
    /\ \E i \in DOMAIN result.val.kl_local : result.val.kl_local[i] > 0

\* C8: the frozen reference parameters never track a gradient and no step
\* changes their values.
C8_FrozenStayFrozen ==
    [][/\ \A t \in FrozenNames : ~requires_grad[t] /\ ~requires_grad'[t]
       /\ UNCHANGED frozen]_vars

\* a loss computed after the optimizer has stepped, the reference
\* parameters still not tracking a gradient
C8_Witness ==
    /\ op = "loss"
    /\ nsteps > 0
    /\ \A t \in FrozenNames : ~requires_grad[t]
    /\ \E t \in LearnedNames : requires_grad[t]

\* C9: every step other than the optimizer's leaves V, gamma, eta, beta and
\* the encoder weights unchanged.
C9_ReadOnlyCore ==
    [][op' # "optimizer" => UNCHANGED learned]_vars

\* a generative step in mode both, on parameters the optimizer has written
C9_Witness ==
    /\ op = "generative"
    /\ amortization = "both"
    /\ nsteps > 0
    /\ Returned

\* C10: every call to sample raises NotImplementedError, invokes no
\* network and changes no state.
C10_SampleRaises ==
    [][op' = "sample" =>
          /\ result'.kind = "raise"
          /\ result'.err = "NotImplementedError"
          /\ enc_log' = {}
          /\ UNCHANGED <<frozen, learned, config, tensors, nsteps, is_trained_>>]_vars

\* sample has raised on a model the optimizer has trained, with a
\* minibatch at hand
C10_Witness ==
    /\ op = "sample"
    /\ Raised
    /\ nsteps > 0
    /\ tensors.some

\* C11: get_scale_for_ct on a model that has not been trained raises
\* before any batch is decoded; on a trained model the same call decodes
\* every queried row.
C11_ScaleForCtNeedsTraining ==
    op = "DestVI.get_scale_for_ct" =>
        /\ ~is_trained_ =>
              /\ Raised
              /\ result.err = "RuntimeError"
              /\ enc_log = {}
        /\ (is_trained_ /\ result.args.x.some) =>
              /\ Returned
              /\ DOMAIN result.val = DOMAIN result.args.x.val
              /\ \A i \in DOMAIN result.val :
                    result.val[i] =
                        ModuleGetCtSpecificExpression(result.args.x, result.args.ind_x,
                                                      result.args.y).res.val.px_ct[i]

\* the call has raised on an untrained model whose latent codes are
\* amortized, with counts supplied
C11_Witness ==
    /\ op = "DestVI.get_scale_for_ct"
    /\ ~is_trained_
    /\ amortization = "both"
    /\ result.args.x.some
    /\ Raised

\* the call has decoded a batch of several rows on a trained model
C11_WitnessTrained ==
    /\ op = "DestVI.get_scale_for_ct"
    /\ is_trained_
    /\ Returned
    /\ Cardinality(DOMAIN result.val) > 1

\* C12: the gamma accessor returns [n_latent, n_labels, batch or n_spots]
\* in every mode, entry [l, c, s] being latent coordinate l of cell type c
\* at spot s: the stored entry, or the encoder's output for row s; the
\* dataset-level accessor returns the same entries as [n_spots, n_latent,
\* n_labels] in dataset row order.
C12_GammaAxes ==
    /\ (op = "get_gamma" /\ Returned) =>
          LET n == IF amortization \in {"latent", "both"}
                   THEN Cardinality(DOMAIN result.args.x.val) ELSE NSpots
          IN /\ DOMAIN result.val = Latents
             /\ \A l \in Latents :
                   /\ DOMAIN result.val[l] = Labels
                   /\ \A c \in Labels :
                         /\ DOMAIN result.val[l][c] = 0 .. (n - 1)
                         /\ \A s \in 0 .. (n - 1) :
                               IF amortization \in {"latent", "both"}
                               THEN \A e \in enc_log :
                                       result.val[l][c][s] =
                                           EncoderForward(gamma_encoder, e.input)[s][l * NLabels + c]
                               ELSE result.val[l][c][s] = gamma[l][c][s]
    /\ (op = "DestVI.get_gamma" /\ Returned) =>
          LET n == IF amortization \in {"latent", "both"}
                   THEN Cardinality(DOMAIN result.args.dataset.val) ELSE NSpots
          IN /\ DOMAIN result.val = 0 .. (n - 1)
             /\ \A s \in 0 .. (n - 1) :
                   /\ DOMAIN result.val[s] = Latents
                   /\ \A l \in Latents :
                         /\ DOMAIN result.val[s][l] = Labels
                         /\ \A c \in Labels :
                               IF amortization \in {"latent", "both"}
                               THEN \A e \in enc_log :
                                       result.val[s][l][c] =
                                           EncoderForward(gamma_encoder, e.input)[s][l * NLabels + c]
                               ELSE result.val[s][l][c] = gamma[l][c][s]

\* the accessor has encoded a batch of two rows whose codes differ
C12_Witness ==
    /\ op = "get_gamma"
    /\ Returned
    /\ amortization = "latent"
    /\ enc_log # {}
    /\ Cardinality(DOMAIN result.args.x.val) > 1
    /\ \E l \in Latents, c \in Labels : result.val[l][c][0] # result.val[l][c][1]

\* the registered indices are a permutation of the dataset rows, the stored
\* tensors have one column per row, and the indices in use are columns
IndicesValid ==
    LET n == Cardinality(DOMAIN X)
        seen == IF op \in {"generative", "get_ct_specific_expression"}
                THEN {result.args.ind_x[i] : i \in DOMAIN result.args.ind_x}
                ELSE {}
    IN /\ DOMAIN X = 0 .. (n - 1)
       /\ DOMAIN obs_indices = DOMAIN X
       /\ {obs_indices[s] : s \in DOMAIN obs_indices} = 0 .. (n - 1)
       /\ \A k \in Components : DOMAIN V[k] = 0 .. (n - 1)
       /\ \A l \in Latents : \A c \in Labels : DOMAIN gamma[l][c] = 0 .. (n - 1)
       /\ tensors.some =>
             \A i \in DOMAIN tensors.val.ind_x : tensors.val.ind_x[i] \in 0 .. (n - 1)
       /\ seen \subseteq 0 .. (n - 1)

UnitBank ==
    /\ mean_vprior.some
    /\ \A c \in Labels : \A j \in DOMAIN mean_vprior.val[c] : \A l \in Latents :
          mean_vprior.val[c][j][l] = 0 /\ var_vprior.val[c][j][l] = 1

\* C14: with a bank of p pseudo-points that all have mean 0 and variance 1
\* the latent-prior term of the loss equals the isotropic standard-normal
\* term for the same gamma.
C14_UnitBankIsIsotropic ==
    (op = "loss" /\ UnitBank) =>
        LET g == ModuleGenerative(tensors.val.X, tensors.val.ind_x).res.val.gamma
        IN /\ DOMAIN result.val.kl_local = DOMAIN g
           /\ \A i \in DOMAIN g :
                 result.val.kl_local[i] =
                     SumOver([c \in Labels |->
                         SumOver([l \in Latents |-> 0 - NormalLogProb(g[i][c][l], 0, 1)],
                                 Latents)], Labels)

\* a loss has been computed with a degenerate bank of several points
C14_Witness ==
    /\ op = "loss"
    /\ UnitBank
    /\ Cardinality(DOMAIN mean_vprior.val[0]) > 1
    /\ \E i \in DOMAIN result.val.kl_local : result.val.kl_local[i] > 0

\* latent coordinate l of cell type c for row i of a minibatch, as the
\* generative step obtains it
LatentCode(x, ind_x, i, c, l) ==
    IF amortization \in {"latent", "both"}
    THEN EncoderForward(gamma_encoder, Log1pRows(x))[i][l * NLabels + c]
    ELSE gamma[l][c][ind_x[i]]

\* C15: Autotune routes every key of a sampled (and of the best)
\* configuration to the destination of the dict that declares it: model
\* constructor for model_hyperparams, train() for trainer_hyperparams,
\* plan_kwargs for plan_hyperparams, each by its own membership test.
C15_IndependentRouting ==
    op \in {"Autotune._scvi_trainable", "Autotune.run"} =>
        LET cfg == result.args.config
            Routed(declared, dest) ==
                \A key \in DOMAIN cfg :
                    key \in DOMAIN declared <=>
                        (key \in DOMAIN dest /\ dest[key] = cfg[key])
        IN /\ Routed(tuner.model_hyperparams, result.val.model_config)
           /\ Routed(tuner.trainer_hyperparams, result.val.trainer_config)
           /\ Routed(tuner.plan_hyperparams, result.val.plan_config)

\* C16: in the generative step row r of the flattened decoder input is the
\* latent code of spot r div n_labels and cell type r mod n_labels, its
\* label is r mod n_labels, and entry [s, c] of the reshaped decoder output
\* is the profile decoded from gamma[:, c, s] with label c.
C16_FlattenedRows ==
    op = "generative" =>
        LET x == result.args.x
            ind_x == result.args.ind_x
            M == Cardinality(DOMAIN x)
            loc == result.val.locals
        IN /\ DOMAIN loc.gamma_reshape = 0 .. (M * NLabels - 1)
           /\ DOMAIN loc.enum_label = 0 .. (M * NLabels - 1)
           /\ \A r \in 0 .. (M * NLabels - 1) :
                 /\ loc.enum_label[r] = r % NLabels
                 /\ loc.gamma_reshape[r] =
                       [l \in Latents |-> LatentCode(x, ind_x, r \div NLabels, r % NLabels, l)]
           /\ \A s \in DOMAIN x : \A c \in Labels :
                 loc.px_rate[s][c] =
                     PxDecoderForward(DecoderForward(
                         [l \in Latents |-> LatentCode(x, ind_x, s, c, l)], c))

\* a generative step over two spots whose decoded profiles differ between
\* the cell types of one spot and between the spots of one cell type
C16_Witness ==
    /\ op = "generative"
    /\ Cardinality(DOMAIN result.args.x) > 1
    /\ result.val.locals.px_rate[0][0] # result.val.locals.px_rate[0][1]
    /\ result.val.locals.px_rate[0][0] # result.val.locals.px_rate[1][0]

\* C17: for every row i of a cell-type-specific expression query the
\* latent slice decoded is that of spot ind_x[i] and cell type y[i],
\* decoded with label y[i]; generative decodes the same slice with the same
\* label for that spot and cell type.
C17_SelectedSlice ==
    (op = "get_ct_specific_expression" /\ Returned) =>
        LET ind_x == result.args.ind_x
            y == result.args.y
            gen == ModuleGenerative(tensors.val.X, ind_x).res.val.locals
        IN \A i \in DOMAIN ind_x :
              /\ result.val.gamma_select[i] =
                    [l \in Latents |-> LatentCode(tensors.val.X, ind_x, i, y[i], l)]
              /\ result.val.gamma_select[i] = gen.gamma_reshape[i * NLabels + y[i]]
              /\ gen.enum_label[i * NLabels + y[i]] = y[i]
              /\ \A g \in Genes :
                    result.val.px_ct[i][g] =
                        Mul(Mul(Exp(px_o[g]), Softplus(beta[g])),
                            gen.px_rate[i][y[i]][g])

\* a query over two rows that asks for different cell types, whose slices
\* differ from those of the first cell type
C17_Witness ==
    /\ op = "get_ct_specific_expression"
    /\ Returned
    /\ Cardinality(DOMAIN result.args.y) > 1
    /\ result.args.y[0] # result.args.y[1]
    /\ \E i \in DOMAIN result.args.y :
          /\ result.args.y[i] # 0
          /\ result.val.gamma_select[i] #
                [l \in Latents |-> LatentCode(tensors.val.X, result.args.ind_x, i, 0, l)]

\* C18: the noise pseudo-type is component n_labels everywhere: generative
\* appends softplus(eta) as component n_labels and weights it by loading
\* column n_labels in the mixture, get_proportions with keep_noise=False
\* drops exactly loading column n_labels, the dataset-level accessor names
\* that last column "noise_term", and the catalog keeps n_labels + 1
\* entries.
C18_NoiseIsLast ==
    /\ DOMAIN V = 0 .. NLabels
    /\ DOMAIN V_encoder.W = 0 .. NLabels
    /\ op = "generative" =>
          LET val == result.val IN
          \A i \in DOMAIN result.args.x :
             /\ DOMAIN val.v[i] = 0 .. NLabels
             /\ DOMAIN val.locals.r_hat[i] = 0 .. NLabels
             /\ \A g \in Genes :
                   /\ val.locals.r_hat[i][NLabels][g] = Softplus(eta[g])
                   /\ \A c \in 0 .. (NLabels - 1) :
                         val.locals.r_hat[i][c][g] =
                             Mul(Softplus(beta[g]), val.locals.px_rate[i][c][g])
                   /\ val.px_scale[i][g] =
                         SumOver([k \in 0 .. NLabels |->
                                     Mul(val.v[i][k], val.locals.r_hat[i][k][g])],
                                 0 .. NLabels)
    /\ (op = "get_proportions" /\ Returned) =>
          \A i \in DOMAIN result.val :
             /\ DOMAIN result.val[i] =
                   IF result.args.keep_noise THEN 0 .. NLabels ELSE (0 .. NLabels) \ {NLabels}
             /\ \A k \in DOMAIN result.val[i] :
                   result.val[i][k][1] =
                       Softplus(IF amortization \in {"both", "proportion"}
                                THEN EncoderForward(V_encoder, RawRows(result.args.x.val))[i][k]
                                ELSE V[k][i])
    /\ (op = "DestVI.get_proportions" /\ Returned) =>
          /\ \A c \in 1 .. NLabels : result.val.columns[c] = cell_type_mapping[c]
          /\ result.args.keep_noise =>
                /\ Len(result.val.columns) = NLabels + 1
                /\ result.val.columns[NLabels + 1] = "noise_term"
                /\ \A i \in DOMAIN result.val.data :
                      result.val.data[i][NLabels][1] = Softplus(V[NLabels][i])
          /\ ~result.args.keep_noise =>
                /\ Len(result.val.columns) = NLabels
                /\ \A i \in DOMAIN result.val.data :
                      DOMAIN result.val.data[i] = 0 .. (NLabels - 1)

\* a generative step in which the noise component carries weight in the
\* mixture
C18_Witness ==
    /\ op = "generative"
    /\ \E i \in DOMAIN result.args.x : \E g \in Genes :
          /\ result.val.v[i][NLabels] > 0
          /\ result.val.locals.r_hat[i][NLabels][g] > 0
          /\ result.val.px_scale[i][g] >
                SumOver([k \in 0 .. (NLabels - 1) |->
                            Mul(result.val.v[i][k], result.val.locals.r_hat[i][k][g])],
                        0 .. (NLabels - 1))

\* the module accessor has dropped the noise column of an encoded batch
C18_WitnessDrop ==
    /\ op = "get_proportions"
    /\ Returned
    /\ ~result.args.keep_noise
    /\ amortization = "proportion"

\* the dataset-level accessor has named the noise column
C18_WitnessNamed ==
    /\ op = "DestVI.get_proportions"
    /\ Returned
    /\ result.args.keep_noise

====
